---------------------------- MODULE Spec2Model ----------------------------
(***************************************************************************)
(* journal-tui: the animated authentication gate (src/src/matrix.rs), its  *)
(* caller (src/src/main.rs) and the encrypted vault (src/src/volume.rs).   *)
(*                                                                         *)
(* Time is counted in units of one loop sleep (50 ms).  An Instant of the  *)
(* program is kept as its age (the time elapsed since it was taken), -1    *)
(* while it is not set; an age stops growing one unit past the largest     *)
(* duration the program compares it with.  Time passes in the sleeps and   *)
(* in the timed event poll of the foreground loop; a sleep may oversleep   *)
(* by up to MaxJitter units (drawing, scheduling).                         *)
(*                                                                         *)
(* The rain columns updated by MatrixAnimation::update never influence the *)
(* phase, the typed count or any timer; they are simulated separately.     *)
(***************************************************************************)
EXTENDS Integers, Sequences, FiniteSets

\* ------------------------------------------------------------ bounds
\* Most units a sleep or a timed-out poll oversleeps.
MaxJitter == 1
\* Most unread terminal events held in the input queue.
MaxQueue == 2

\* ------------------------------------------------- program constants
\* thread::sleep(Duration::from_millis(50)): the loop sleep, the time unit.
SleepMs == 50
\* event::poll(Duration::from_millis(50)) in the gate's main loop.
PollMs == 50
\* event::poll(Duration::from_millis(1)) in the encrypting animation.
EncPollMs == 1
\* thread::sleep(Duration::from_secs(3)) before auth_fn is invoked.
AuthDelaySecs == 3
\* while start.elapsed() < Duration::from_secs(3).
StartDelaySecs == 3
\* complete_time.elapsed() > Duration::from_secs(3).
HoldSecs == 3
\* while fail_start.elapsed() < Duration::from_secs(2).
FailSecs == 2
\* while start.elapsed() < Duration::from_secs(2) (encrypting animation).
EncryptSecs == 2

Ticks(ms) == ms \div SleepMs
Secs(s) == Ticks(s * 1000)

SleepTicks == Ticks(SleepMs)
PollTicks == Ticks(PollMs)
EncPollTicks == Ticks(EncPollMs)
AuthDelayNone == Secs(0)
AuthDelay == Secs(AuthDelaySecs)
StartDelay == Secs(StartDelaySecs)
Hold == Secs(HoldSecs)
FailHoldNone == Secs(0)
FailHold == Secs(FailSecs)
EncryptDuration == Secs(EncryptSecs)

None == -1
Min(a, b) == IF a < b THEN a ELSE b

\* An age after d more units; an unset Instant stays unset.
Aged(a, d, cap) == IF a = None THEN None ELSE Min(a + d, cap)

\* What one sleep of the given length may take.
SleepTimes(t) == t .. (t + MaxJitter)

\* ----------------------------------------------------------- messages
\* message.len() of the strings the animation is given.
MsgLen(m) ==
    CASE m = "" -> 0
      [] m = "BIOMETRIC SCAN INITIATED..." -> 27
      [] m = "ACCESS GRANTED - DECRYPTING JOURNAL" -> 35
      [] m = "ACCESS DENIED" -> 13
      [] m = "ENCRYPTING VAULT - SECURING MEMORIES" -> 36

Phases == {"MatrixRain", "Authenticating", "Decoding", "Success", "Failed"}
AuthOutcomes == {"true", "false", "error"}
Events == {"Esc", "Other"}

VARIABLES
    fn,                    \* the public function of matrix.rs that runs
    pc,                    \* the foreground's position in it
    phase,                 \* animation.phase
    message,               \* animation.message
    decoded_chars,         \* animation.decoded_chars
    decode_complete_time,  \* animation.decode_complete_time (age, None)
    start,                 \* let start = Instant::now() (age)
    fail_start,            \* let fail_start = Instant::now() (age)
    bg,                    \* the spawned thread: unspawned/sleeping/running/finished
    bgSleep,               \* age of the thread's sleep
    authOutcome,           \* what auth_fn returned ("none" before)
    joined,                \* what auth_result.join() gave the foreground
    queue,                 \* unread terminal events, oldest first
    ret,                   \* the function's return value ("none" before)
    mainPc,                \* main: gate / app / exit
    entriesRead,           \* App::new has listed the entries directory
    \* history
    phaseLog,              \* the phase values taken, in order
    escIn,                 \* the phases in which an Esc was pressed
    escRead,               \* event::read() has returned an Esc
    escAge,                \* age of the first Esc pressed in Authenticating
    authAge,               \* age of start_authentication()
    typedAge               \* age of decoded_chars reaching message.len()

animVars == <<phase, message, decoded_chars, decode_complete_time>>
bgVars == <<bg, bgSleep, authOutcome>>
mainVars == <<mainPc, entriesRead>>
histVars == <<phaseLog, escIn, escRead, escAge, authAge, typedAge>>
gateVars == <<fn, pc, animVars, start, fail_start, bgVars, joined, queue, ret,
              mainVars, histVars>>

VARIABLES
    dmg,                   \* the container file: its passphrase, <<>> if absent
    mounted,               \* the mount point /Volumes/JournalVault exists
    entriesDir,            \* the volume holds an entries directory
    keychain,              \* the keychain item's password ("none": no item)
    srcExists,             \* source_dir exists
    srcDir,                \* the entries of source_dir
    volFiles,              \* the files in the volume's entries directory
    vop,                   \* the VolumeManager method called last
    vres,                  \* what it returned
    procs,                 \* the external processes it started, in order
    \* history
    vseq,                  \* flips at every call of a method
    extSince,              \* another process acted since the last call
    healthy,               \* every command and file system call of the
                           \* last call worked as far as it was up to it
    lastMounted,           \* is_mounted() as the last call left it
    stale,                 \* the last call began with is_mounted() other
                           \* than the call before it had left it
    prevAttach             \* the call before the last was a mount that
                           \* succeeded by attaching, and no other process
                           \* acted between the two

vaultVars == <<dmg, mounted, entriesDir, keychain, srcExists, srcDir, volFiles, vop, vres,
               procs, vseq, extSince, healthy, lastMounted, stale, prevAttach>>

VARIABLES
    \* ---- one MatrixColumn of animation.columns
    column,                \* its fields; NoColumn before MatrixAnimation::new
    \* history
    brightnessBefore,      \* column.brightness as the last update() found it
    columnReset            \* the last update() reset the column

rainVars == <<column, brightnessBefore, columnReset>>

VARIABLES
    \* ---- App, the note browser
    appPc,                 \* "new" before App::new, "run" in run_app's loop,
                           \* "quit" after q, "err" after a `?` returned
    entries,               \* entries: the notes, by creation stamp
    selected,              \* list_state.selected(); None or an index
    mode,                  \* mode: "Normal" or "TitleInput"
    title_input,           \* title_input
    \* history
    opened                 \* the last entries[selected - 1] of open_entry:
                           \* the index and entries.len() then

appVars == <<appPc, entries, selected, mode, title_input, opened>>
vars == <<gateVars, vaultVars, rainVars, appVars>>

\* ---------------------------------------------------- MatrixAnimation
\* update() acts on the typing state only in this phase.
UpdateAppliesNot(ph) == ph # "Decoding"
UpdateApplies(ph) == ph = "Decoding"

\* complete_time.elapsed() > Duration::from_secs(3)
HoldExpiredAtOnce(age) == age >= 0
HoldExpiredNever(age) == FALSE
HoldExpired(age) == age > Hold

HoldCap == Hold + 1

\* MatrixAnimation::update on (phase, message, decoded_chars,
\* decode_complete_time): the typed count, then the hold timer, then the
\* phase, as the code orders them.
UpdateDecoded(ph, msg, dc) ==
    IF UpdateApplies(ph) /\ dc < MsgLen(msg)
    THEN Min(dc + 1, MsgLen(msg))
    ELSE dc

UpdateComplete(ph, msg, dc, ct) ==
    IF UpdateApplies(ph) /\ ~(dc < MsgLen(msg)) /\ ct = None
    THEN 0
    ELSE ct

UpdatePhase(ph, msg, dc, ct) ==
    LET ct2 == UpdateComplete(ph, msg, dc, ct)
    IN  IF UpdateApplies(ph) /\ ct2 # None /\ HoldExpired(ct2)
        THEN "Success"
        ELSE ph

LogPhase(log, ph) ==
    IF log[Len(log)] = ph THEN log ELSE Append(log, ph)

\* The clocks after d units.
Advance(d) ==
    /\ start' = Aged(start, d, StartDelay)
    /\ bgSleep' = Aged(bgSleep, d, AuthDelay)
    /\ escAge' = Aged(escAge, d, PollTicks + 1)
    /\ authAge' = Aged(authAge, d, AuthDelay + 1)

\* animation.update() followed by d units of time.
Update(d) ==
    LET dc2 == UpdateDecoded(phase, message, decoded_chars)
        ct2 == UpdateComplete(phase, message, decoded_chars, decode_complete_time)
        ph2 == UpdatePhase(phase, message, decoded_chars, decode_complete_time)
        typed2 == IF typedAge = None /\ phase = "Decoding" /\ dc2 = MsgLen(message)
                  THEN 0 ELSE typedAge
    IN  /\ decoded_chars' = dc2
        /\ decode_complete_time' = Aged(ct2, d, HoldCap)
        /\ phase' = ph2
        /\ phaseLog' = LogPhase(phaseLog, ph2)
        /\ typedAge' = Aged(typed2, d, HoldCap + 1)
        /\ UNCHANGED message

\* start_authentication / authentication_success / authentication_failed
AuthenticationSuccessPhaseSkips == "Success"
AuthenticationSuccessPhase == "Decoding"

\* match auth_result.join().unwrap() { Ok(true) => ..., _ => ... }
\* (auth_fn returns; were it to panic, the unwrap would panic with it.)
JoinIsSuccessLax(r) == r # "false"
JoinIsSuccessAny(r) == TRUE
JoinIsSuccess(r) == r = "true"

\* event::read(): the oldest unread event
NextEventNewest(q) == q[Len(q)]
NextEvent(q) == Head(q)

\* if key.code == KeyCode::Esc
IsCancelKeyNever(k) == FALSE
IsCancelKey(k) == k = "Esc"

\* disable_raw_mode()?; execute!(...)?; return Ok(r): r, or the error of
\* restoring the terminal.
Restore(r) == {r, "err"}

\* ------------------------------------------------------------- Init
InitCommon ==
    /\ phase = "MatrixRain"
    /\ message = ""
    /\ decoded_chars = 0
    /\ decode_complete_time = None
    /\ start = None
    /\ fail_start = None
    /\ bg = "unspawned"
    /\ bgSleep = None
    /\ authOutcome = "none"
    /\ joined = "none"
    /\ queue = <<>>
    /\ ret = "none"
    /\ entriesRead = FALSE
    /\ phaseLog = <<"MatrixRain">>
    /\ escIn = {}
    /\ escRead = FALSE
    /\ escAge = None
    /\ authAge = None
    /\ typedAge = None

\* main has called run_matrix_authentication, which has built the animation.
GateInit ==
    /\ fn = "run_matrix_authentication"
    /\ pc = "start_auth"
    /\ mainPc = "gate"
    /\ InitCommon

\* ------------------------------------------- run_matrix_authentication
\* animation.start_authentication()
StartAuthentication ==
    /\ pc = "start_auth"
    /\ phase' = "Authenticating"
    /\ phaseLog' = LogPhase(phaseLog, "Authenticating")
    /\ message' = "BIOMETRIC SCAN INITIATED..."
    /\ authAge' = 0
    /\ pc' = "spawn"
    /\ UNCHANGED <<vaultVars, rainVars, appVars, fn, decoded_chars, decode_complete_time, start, fail_start,
                   bgVars, joined, queue, ret, mainVars, escIn, escRead,
                   escAge, typedAge>>

\* thread::spawn(...); let start = Instant::now()
SpawnAuth ==
    /\ pc = "spawn"
    /\ bg' = "sleeping"
    /\ bgSleep' = 0
    /\ start' = 0
    /\ pc' = "delay"
    /\ UNCHANGED <<vaultVars, rainVars, appVars, fn, animVars, fail_start, authOutcome, joined, queue, ret,
                   mainVars, histVars>>

\* while start.elapsed() < 3 s { update; draw; sleep(50 ms) }
DelayLoop ==
    /\ pc = "delay"
    /\ start < StartDelay
    /\ \E d \in SleepTimes(SleepTicks) :
          /\ Update(d)
          /\ Advance(d)
    /\ UNCHANGED <<vaultVars, rainVars, appVars, fn, pc, fail_start, bg, authOutcome, joined, queue, ret,
                   mainVars, escIn, escRead>>

DelayExit ==
    /\ pc = "delay"
    /\ ~(start < StartDelay)
    /\ pc' = "main"
    /\ UNCHANGED <<vaultVars, rainVars, appVars, fn, animVars, start, fail_start, bgVars, joined, queue, ret,
                   mainVars, histVars>>

\* loop { update; draw; if auth_result.is_finished() { match join ... } ...
\* auth_result.is_finished(): a test of the thread's state that does not wait
IsFinishedAlways(b) == TRUE
IsFinished(b) == b = "finished"

MainTick ==
    /\ pc = "main"
    /\ LET dc2 == UpdateDecoded(phase, message, decoded_chars)
           ct2 == UpdateComplete(phase, message, decoded_chars, decode_complete_time)
           ph2 == UpdatePhase(phase, message, decoded_chars, decode_complete_time)
       IN  IF IsFinished(bg)
           THEN /\ joined' = authOutcome
                /\ IF JoinIsSuccess(authOutcome)
                   THEN \* animation.authentication_success()
                        /\ phase' = AuthenticationSuccessPhase
                        /\ phaseLog' = LogPhase(LogPhase(phaseLog, ph2),
                                                AuthenticationSuccessPhase)
                        /\ message' = "ACCESS GRANTED - DECRYPTING JOURNAL"
                        /\ decoded_chars' = 0
                        /\ decode_complete_time' = ct2
                        /\ fail_start' = fail_start
                        /\ pc' = "decoding"
                   ELSE \* animation.authentication_failed()
                        /\ phase' = "Failed"
                        /\ phaseLog' = LogPhase(LogPhase(phaseLog, ph2), "Failed")
                        /\ message' = "ACCESS DENIED"
                        /\ decoded_chars' = dc2
                        /\ decode_complete_time' = ct2
                        /\ fail_start' = 0
                        /\ pc' = "failed"
           ELSE /\ phase' = ph2
                /\ phaseLog' = LogPhase(phaseLog, ph2)
                /\ decoded_chars' = dc2
                /\ decode_complete_time' = ct2
                /\ pc' = "poll"
                /\ UNCHANGED <<message, joined, fail_start>>
    /\ UNCHANGED <<vaultVars, rainVars, appVars, fn, start, bgVars, queue, ret, mainVars, escIn, escRead,
                   escAge, authAge, typedAge>>

\* if event::poll(50 ms)? { if let Event::Key(key) = event::read()? {
\*     if key.code == KeyCode::Esc { ...; return Ok(false) } } }
PollEvent ==
    /\ pc = "poll"
    /\ IF queue # <<>>
       THEN /\ queue' = Tail(queue)
            /\ escRead' = (escRead \/ NextEvent(queue) = "Esc")
            /\ IF IsCancelKey(NextEvent(queue))
               THEN /\ pc' = "done"
                    /\ ret' \in Restore("false")
               ELSE /\ pc' = "sleep"
                    /\ ret' = ret
            /\ UNCHANGED <<start, bgSleep, escAge, authAge,
                           decode_complete_time, typedAge>>
       ELSE /\ \E d \in SleepTimes(PollTicks) :
                  /\ Advance(d)
                  /\ decode_complete_time' = Aged(decode_complete_time, d, HoldCap)
                  /\ typedAge' = Aged(typedAge, d, HoldCap + 1)
            /\ pc' = "sleep"
            /\ UNCHANGED <<queue, escRead, ret>>
    /\ UNCHANGED <<vaultVars, rainVars, appVars, fn, phase, message, decoded_chars, fail_start, bg,
                   authOutcome, joined, mainVars, phaseLog, escIn>>

\* thread::sleep(50 ms) at the end of the main loop
MainSleep ==
    /\ pc = "sleep"
    /\ \E d \in SleepTimes(SleepTicks) :
          /\ Advance(d)
          /\ decode_complete_time' = Aged(decode_complete_time, d, HoldCap)
          /\ typedAge' = Aged(typedAge, d, HoldCap + 1)
    /\ pc' = "main"
    /\ UNCHANGED <<vaultVars, rainVars, appVars, fn, phase, message, decoded_chars, fail_start, bg,
                   authOutcome, joined, queue, ret, mainVars, phaseLog, escIn,
                   escRead>>

\* while animation.phase != Success { update; draw; sleep(50 ms) }
DecodingLoop ==
    /\ pc = "decoding"
    /\ phase # "Success"
    /\ \E d \in SleepTimes(SleepTicks) :
          /\ Update(d)
          /\ Advance(d)
    /\ UNCHANGED <<vaultVars, rainVars, appVars, fn, pc, fail_start, bg, authOutcome, joined, queue, ret,
                   mainVars, escIn, escRead>>

\* ...; return Ok(true)
DecodingReturn ==
    /\ pc = "decoding"
    /\ ~(phase # "Success")
    /\ pc' = "done"
    /\ ret' \in Restore("true")
    /\ UNCHANGED <<vaultVars, rainVars, appVars, fn, animVars, start, fail_start, bgVars, joined, queue,
                   mainVars, histVars>>

\* while fail_start.elapsed() < 2 s { update; draw; sleep(50 ms) }
FailedLoop ==
    /\ pc = "failed"
    /\ fail_start < FailHold
    /\ \E d \in SleepTimes(SleepTicks) :
          /\ Update(d)
          /\ Advance(d)
          /\ fail_start' = Aged(fail_start, d, FailHold)
    /\ UNCHANGED <<vaultVars, rainVars, appVars, fn, pc, bg, authOutcome, joined, queue, ret, mainVars,
                   escIn, escRead>>

\* ...; return Ok(false)
FailedReturn ==
    /\ pc = "failed"
    /\ ~(fail_start < FailHold)
    /\ pc' = "done"
    /\ ret' \in Restore("false")
    /\ UNCHANGED <<vaultVars, rainVars, appVars, fn, animVars, start, fail_start, bgVars, joined, queue,
                   mainVars, histVars>>

\* terminal.draw(...)?, event::poll(...)?, event::read()?: the error is
\* returned at once.
TerminalError ==
    /\ pc \in {"delay", "main", "poll", "decoding", "failed",
              "enc_loop", "enc_poll"}
    /\ pc' = "done"
    /\ ret' = "err"
    /\ UNCHANGED <<vaultVars, rainVars, appVars, fn, animVars, start, fail_start, bgVars, joined, queue,
                   mainVars, histVars>>

\* ------------------------------------------------ the spawned thread
\* thread::sleep(Duration::from_secs(3)) is over: auth_fn is invoked.
BgWake ==
    /\ bg = "sleeping"
    /\ bgSleep >= AuthDelay
    /\ bg' = "running"
    /\ UNCHANGED <<vaultVars, rainVars, appVars, fn, pc, animVars, start, fail_start, bgSleep, authOutcome,
                   joined, queue, ret, mainVars, histVars>>

\* auth_fn() returns Ok(true), Ok(false) or Err(_), after any time.
BgReturn ==
    /\ bg = "running"
    /\ \E r \in AuthOutcomes : authOutcome' = r
    /\ bg' = "finished"
    /\ UNCHANGED <<vaultVars, rainVars, appVars, fn, pc, animVars, start, fail_start, bgSleep, joined,
                   queue, ret, mainVars, histVars>>

\* ------------------------------------------------------ the terminal
\* The user presses a key while the function runs.
Press ==
    /\ pc # "done"
    /\ Len(queue) < MaxQueue
    /\ \E k \in Events :
          /\ queue' = Append(queue, k)
          /\ escIn' = IF k = "Esc" THEN escIn \cup {phase} ELSE escIn
          /\ escAge' = IF k = "Esc" /\ phase = "Authenticating" /\ escAge = None
                       THEN 0 ELSE escAge
    /\ UNCHANGED <<vaultVars, rainVars, appVars, fn, pc, animVars, start, fail_start, bgVars, joined, ret,
                   mainVars, phaseLog, escRead, authAge, typedAge>>

\* --------------------------------------------------------------- main
\* let authenticated = run_matrix_authentication(...)?;
\* if !authenticated { return Ok(()) }  ...  let app = App::new()?;
MayStartAppUnchecked(r) == r # "err"
MayStartApp(r) == r = "true"

MainAfterGate ==
    /\ mainPc = "gate"
    /\ pc = "done"
    /\ IF MayStartApp(ret)
       THEN /\ mainPc' = "app"
            /\ entriesRead' = TRUE
       ELSE /\ mainPc' = "exit"
            /\ entriesRead' = entriesRead
    /\ UNCHANGED <<vaultVars, rainVars, appVars, fn, pc, animVars, start, fail_start, bgVars, joined, queue,
                   ret, histVars>>

Next ==
    \/ StartAuthentication
    \/ SpawnAuth
    \/ DelayLoop
    \/ DelayExit
    \/ MainTick
    \/ PollEvent
    \/ MainSleep
    \/ DecodingLoop
    \/ DecodingReturn
    \/ FailedLoop
    \/ FailedReturn
    \/ TerminalError
    \/ BgWake
    \/ BgReturn
    \/ Press
    \/ MainAfterGate

\* ------------------------------------------------------ VolumeManager
\* What generate_secure_password may return, and the passwords callers pass.
Secrets == {"pw1", "pw2"}

\* The passwords a caller may pass to a method that takes one: those, and
\* one that ends in a space.
Passwords == Secrets \cup {"pw1 "}

\* str::trim(): the string without its leading and trailing whitespace.
\* Of the strings of the model only the padded password and a lone newline
\* have any.
Trim(str) ==
    CASE str = "pw1 " -> "pw1"
      [] str = "\n" -> ""
      [] OTHER -> str

\* A started process: its command line and what was written to its stdin.
Proc(argv, input) == [argv |-> argv, stdin |-> input]

\* How a command ended: exit status 0, a non-zero exit status, or an
\* io::Error of spawn()/output() (the `?` after them).
Exits == {"ok", "fail", "io"}

\* An entry of the log of processes: the process and how it ended.
Ran(p, exit) == [argv |-> p.argv, stdin |-> p.stdin, exit |-> exit]

\* output.stderr of a process.
Stderr(p) == <<"stderr", p.argv[1], p.argv[2]>>

\* Result<T>: Ok(val), or Err(anyhow!("{err}: {diag}")).
OkRes(v) == [ok |-> TRUE, val |-> v, err |-> "", diag |-> <<>>]
ErrRes(msg, d) == [ok |-> FALSE, val |-> "", err |-> msg, diag |-> d]
IoErr == ErrRes("io::Error", <<>>)

\* The file system and keychain as one value.
World == [dmg |-> dmg, mounted |-> mounted, entriesDir |-> entriesDir,
          keychain |-> keychain, srcExists |-> srcExists, srcDir |-> srcDir,
          volFiles |-> volFiles]

\* The result of a method: the world after it, the processes it started and
\* the value it returned.
Outcome(w, log, res) == [w |-> w, log |-> log, res |-> res]

\* Command::new("hdiutil").args(["create", ..., "-stdinpass", "-volname",
\* volume_name, dmg_path]) with write!(stdin, "{}", password)
CreateProc(pw) ==
    Proc(<<"hdiutil", "create", "-size", "100m", "-fs", "APFS", "-encryption",
           "AES-256", "-stdinpass", "-volname", "JournalVault", "vault.dmg">>,
         <<pw>>)

\* Command::new("hdiutil").args(["attach", dmg_path, "-stdinpass"]) with
\* writeln!(stdin, "{}", password)
AttachProc(pw) ==
    Proc(<<"hdiutil", "attach", "vault.dmg", "-stdinpass">>, <<pw, "\n">>)

\* Command::new("hdiutil").args(["detach", mount_point]) and its -force form
DetachProc == Proc(<<"hdiutil", "detach", "/Volumes/JournalVault">>, <<>>)
ForceDetachProc ==
    Proc(<<"hdiutil", "detach", "/Volumes/JournalVault", "-force">>, <<>>)

\* Command::new("security").args(["add-generic-password", "-a", "journal-tui",
\* "-s", "JournalVault", "-w", password, "-U", "-T", "/usr/bin/security"])
AddPasswordProc(pw) ==
    Proc(<<"security", "add-generic-password", "-a", "journal-tui", "-s",
           "JournalVault", "-w", pw, "-U", "-T", "/usr/bin/security">>, <<>>)

\* Command::new("security").args(["find-generic-password", "-a",
\* "journal-tui", "-s", "JournalVault", "-w"])
FindPasswordProc ==
    Proc(<<"security", "find-generic-password", "-a", "journal-tui", "-s",
           "JournalVault", "-w">>, <<>>)

\* The container file is absent.
NoContainer == <<>>

\* The passphrases a container may have: what was piped to the hdiutil that
\* created it.
Passphrases == {<<pw>> : pw \in Secrets} \cup {<<pw, "\n">> : pw \in Secrets}

\* hdiutil with -stdinpass takes its whole standard input up to a NUL as the
\* passphrase, newlines included (hdiutil(1)).  run: the tool itself works
\* ("ok"), fails for a reason of its own ("fail") or cannot be run ("io").
\* create does not overwrite a container; attach needs the container's
\* passphrase.
HdiutilCreateExit(w, p, run) ==
    IF run = "ok" /\ w.dmg # NoContainer THEN "fail" ELSE run

HdiutilAttachExit(w, p, run) ==
    IF run = "ok" /\ (w.dmg = NoContainer \/ p.stdin # w.dmg) THEN "fail" ELSE run

\* security find-generic-password exits non-zero when there is no item.
SecurityFindExit(w, run) ==
    IF run = "ok" /\ w.keychain = "none" THEN "fail" ELSE run

\* is_mounted(): self.mount_point.exists()
IsMountedCached(w) == lastMounted
IsMounted(w) == w.mounted

\* dmg_exists(): self.dmg_path.exists()
DmgExists(w) == w.dmg # NoContainer

\* output.status.success() where each command's output is tested
CreateSucceededUnchecked(exit) == TRUE
CreateSucceeded(exit) == exit = "ok"
AttachSucceededUnchecked(exit) == TRUE
AttachSucceeded(exit) == exit = "ok"
DetachSucceededUnchecked(exit) == TRUE
DetachSucceeded(exit) == exit = "ok"
ForceDetachSucceeded(exit) == exit = "ok"
AddPasswordSucceeded(exit) == exit = "ok"
FindPasswordSucceeded(exit) == exit = "ok"

\* if self.is_mounted() { return Ok(()) } of the two mount methods
MountWithPasswordSkips(w) == IsMounted(w)
MountWithKeychainSkipsNever(w) == FALSE
MountWithKeychainSkips(w) == IsMounted(w)

\* if !self.is_mounted() { return Ok(()) } of unmount
UnmountSkipsNever(w) == FALSE
UnmountSkips(w) == ~IsMounted(w)

\* mount_with_password(password); run: how hdiutil attach fares.
MountWithPasswordOn(w, pw, run) ==
    IF MountWithPasswordSkips(w)
    THEN Outcome(w, <<>>, OkRes("unit"))
    ELSE LET p == AttachProc(pw)
             exit == HdiutilAttachExit(w, p, run)
             w2 == IF exit = "ok" THEN [w EXCEPT !.mounted = TRUE] ELSE w
         IN  IF exit = "io"
             THEN Outcome(w2, <<Ran(p, exit)>>, IoErr)
             ELSE IF ~AttachSucceeded(exit)
                  THEN Outcome(w2, <<Ran(p, exit)>>,
                               ErrRes("Failed to mount volume", Stderr(p)))
                  ELSE Outcome(w2, <<Ran(p, exit)>>, OkRes("unit"))

\* unmount(); run, runForce: how the detach and the forced detach fare.
UnmountOn(w, run, runForce) ==
    IF UnmountSkips(w)
    THEN Outcome(w, <<>>, OkRes("unit"))
    ELSE LET w2 == IF run = "ok" THEN [w EXCEPT !.mounted = FALSE] ELSE w
             w3 == IF runForce = "ok" THEN [w2 EXCEPT !.mounted = FALSE] ELSE w2
             one == <<Ran(DetachProc, run)>>
             two == <<Ran(DetachProc, run), Ran(ForceDetachProc, runForce)>>
         IN  IF run = "io"
             THEN Outcome(w2, one, IoErr)
             ELSE IF DetachSucceeded(run)
                  THEN Outcome(w2, one, OkRes("unit"))
                  ELSE IF runForce = "io"
                       THEN Outcome(w3, two, IoErr)
                       ELSE IF ForceDetachSucceeded(runForce)
                            THEN Outcome(w3, two, OkRes("unit"))
                            ELSE Outcome(w3, two,
                                         ErrRes("Failed to unmount volume",
                                                Stderr(DetachProc)))

\* save_password_to_keychain(password); run: how security fares.  -U
\* replaces the item's password.
SavePasswordOn(w, pw, run) ==
    LET p == AddPasswordProc(pw)
        w2 == IF run = "ok" THEN [w EXCEPT !.keychain = pw] ELSE w
    IN  IF run = "io"
        THEN Outcome(w2, <<Ran(p, run)>>, IoErr)
        ELSE IF ~AddPasswordSucceeded(run)
             THEN Outcome(w2, <<Ran(p, run)>>,
                          ErrRes("Failed to save password to keychain", Stderr(p)))
             ELSE Outcome(w2, <<Ran(p, run)>>, OkRes("unit"))

\* output.stdout of security find-generic-password -w: the item's password
\* and a newline.
FindPasswordStdout(w) == <<w.keychain, "\n">>

\* String::from_utf8_lossy(&output.stdout).trim().to_string(): the newline
\* that ends the output is whitespace, and so is what the password itself
\* ends in.
TrimmedStdout(out) ==
    IF Trim(out[2]) = "" THEN Trim(out[1]) ELSE out[1]

\* get_password_from_keychain(); run: how security fares.
GetPasswordOn(w, run) ==
    LET p == FindPasswordProc
        exit == SecurityFindExit(w, run)
    IN  IF exit = "io"
        THEN Outcome(w, <<Ran(p, exit)>>, IoErr)
        ELSE IF ~FindPasswordSucceeded(exit)
             THEN Outcome(w, <<Ran(p, exit)>>,
                          ErrRes("Password not found in keychain", <<>>))
             ELSE Outcome(w, <<Ran(p, exit)>>,
                          OkRes(TrimmedStdout(FindPasswordStdout(w))))

\* mount_with_keychain()
MountWithKeychainOn(w, runFind, runAttach) ==
    IF MountWithKeychainSkips(w)
    THEN Outcome(w, <<>>, OkRes("unit"))
    ELSE LET g == GetPasswordOn(w, runFind)
         IN  IF ~g.res.ok
             THEN g
             ELSE LET m == MountWithPasswordOn(g.w, g.res.val, runAttach)
                  IN  Outcome(m.w, g.log \o m.log, m.res)

\* create_encrypted_volume(); pw: the generated password; runs: how the
\* external commands fare and whether the two create_dir_all calls (the
\* container's parent, the entries directory) succeed.
CreateEncryptedVolumeOn(w, pw, runs) ==
    IF runs.parent # "ok"
    THEN Outcome(w, <<>>, IoErr)
    ELSE
      LET c == CreateProc(pw)
          exit == HdiutilCreateExit(w, c, runs.create)
          w1 == IF exit = "ok"
                THEN [w EXCEPT !.dmg = c.stdin, !.entriesDir = FALSE,
                               !.volFiles = {}]
                ELSE w
          log1 == <<Ran(c, exit)>>
      IN  IF exit = "io"
          THEN Outcome(w1, log1, IoErr)
          ELSE IF ~CreateSucceeded(exit)
          THEN Outcome(w1, log1,
                       ErrRes("Failed to create encrypted volume", Stderr(c)))
          ELSE
            LET m == MountWithPasswordOn(w1, pw, runs.attach)
            IN  IF ~m.res.ok
                THEN Outcome(m.w, log1 \o m.log, m.res)
                ELSE IF runs.mkdir # "ok"
                THEN Outcome(m.w, log1 \o m.log, IoErr)
                ELSE
                  LET w2 == [m.w EXCEPT !.entriesDir = TRUE, !.mounted = TRUE]
                      u == UnmountOn(w2, runs.detach, runs.force)
                      log2 == log1 \o m.log \o u.log
                  IN  IF ~u.res.ok
                      THEN Outcome(u.w, log2, u.res)
                      ELSE LET k == SavePasswordOn(u.w, pw, runs.save)
                           IN  Outcome(k.w, log2 \o k.log, k.res)

\* What the environment may do to one call: each command fares in one of
\* the three ways, each create_dir_all succeeds or not.  A choice for a
\* command the call does not reach changes nothing, so after the first
\* command that does not work the others are taken to work, but for the
\* forced detach that follows a failed detach.
Runs ==
    LET all == [parent : {"ok", "io"}, create : Exits, attach : Exits,
                mkdir : {"ok", "io"}, detach : Exits, force : Exits,
                save : Exits]
        order(r) == <<r.parent, r.create, r.attach, r.mkdir, r.detach,
                      r.force, r.save>>
    IN  {r \in all :
            /\ \A i \in 1..7, j \in 1..7 :
                  (i < j /\ order(r)[i] # "ok" /\ ~(i = 5 /\ j = 6 /\ r.detach = "fail"))
                      => order(r)[j] = "ok"
            /\ (r.detach = "ok") => (r.force = "ok")}

AllWork(r) ==
    /\ r.parent = "ok" /\ r.create = "ok" /\ r.attach = "ok" /\ r.mkdir = "ok"
    /\ r.detach = "ok" /\ r.force = "ok" /\ r.save = "ok"

\* ---- migrate_entries
\* The entries source_dir may hold: regular files, and a directory whose
\* name ends in .md.
SrcNames == {"a.md", "b.md", "c.txt", "d.md"}
IsDirectory(f) == f = "d.md"

\* path.extension(): what follows the last dot of the file name
Extension(f) ==
    CASE f = "a.md" -> "md"
      [] f = "b.md" -> "md"
      [] f = "c.txt" -> "txt"
      [] f = "d.md" -> "md"

\* path.extension().and_then(|s| s.to_str()) == Some("md")
IsNote(f) == Extension(f) = "md"

\* if !self.is_mounted() { return Err(..) } of migrate_entries
MigrateRefusesNever(w) == FALSE
MigrateRefuses(w) == ~IsMounted(w)

\* if source_dir.exists()
SourceDirExistsAlways(w) == TRUE
SourceDirExists(w) == w.srcExists

\* The entries the loop copies, in the order read_dir yields them.
Notes(w) == {f \in w.srcDir : IsNote(f)}

\* What the environment may do to one call of migrate_entries: the two
\* directory calls succeed or not; the copy of failAt fails ("none": of no
\* entry), after the entries of before were copied.
\* fs::copy of a directory fails.
MigrateRuns(w) ==
    {r \in [mkdir : {"ok", "io"}, readdir : {"ok", "io"},
            failAt : SrcNames \cup {"none"}, before : SUBSET SrcNames] :
        \/ /\ r.mkdir # r.readdir
           /\ r.failAt = "none"
           /\ r.before = {}
        \/ /\ r.mkdir = "ok" /\ r.readdir = "ok"
           /\ r.failAt = "none"
           /\ r.before = {}
           /\ \A f \in Notes(w) : ~IsDirectory(f)
        \/ /\ r.mkdir = "ok" /\ r.readdir = "ok"
           /\ r.failAt \in Notes(w)
           /\ r.before \subseteq Notes(w) \ {r.failAt}
           /\ \A f \in r.before : ~IsDirectory(f)}

\* migrate_entries(source_dir)
MigrateEntriesOn(w, r) ==
    IF MigrateRefuses(w)
    THEN Outcome(w, <<>>, ErrRes("Volume must be mounted before migration", <<>>))
    ELSE IF r.mkdir # "ok"
    THEN Outcome(w, <<>>, IoErr)
    ELSE
      LET w1 == [w EXCEPT !.entriesDir = TRUE, !.mounted = TRUE]
      IN  IF ~SourceDirExists(w1)
          THEN Outcome(w1, <<>>, OkRes(0))
          ELSE IF r.readdir # "ok" \/ ~w1.srcExists
          THEN Outcome(w1, <<>>, IoErr)
          ELSE IF r.failAt # "none"
          THEN Outcome([w1 EXCEPT !.volFiles = @ \cup r.before], <<>>, IoErr)
          ELSE Outcome([w1 EXCEPT !.volFiles = @ \cup Notes(w1)], <<>>,
                       OkRes(Cardinality(Notes(w1))))

\* The file system did all that was asked of it and that it can do: no
\* call failed but, maybe, the copy of a directory.
MigrateWorks(r) ==
    /\ r.mkdir = "ok" /\ r.readdir = "ok"
    /\ (r.failAt = "none" \/ IsDirectory(r.failAt))

\* The calls of log that ran `command sub`.
RunsOf(log, command, sub) ==
    {i \in DOMAIN log : log[i].argv[1] = command /\ log[i].argv[2] = sub}

MountMethods == {"mount_with_password", "mount_with_keychain"}

\* A method was called in environment health h and has returned o.
Returned(name, o, h) ==
    /\ dmg' = o.w.dmg
    /\ mounted' = o.w.mounted
    /\ entriesDir' = o.w.entriesDir
    /\ keychain' = o.w.keychain
    /\ srcExists' = o.w.srcExists
    /\ srcDir' = o.w.srcDir
    /\ volFiles' = o.w.volFiles
    /\ vop' = name
    /\ vres' = o.res
    /\ procs' = o.log
    /\ vseq' = 1 - vseq
    /\ extSince' = FALSE
    /\ healthy' = h
    /\ lastMounted' = o.w.mounted
    /\ stale' = (mounted # lastMounted)
    /\ prevAttach' = (/\ vop \in MountMethods /\ vres.ok /\ ~extSince
                       /\ RunsOf(procs, "hdiutil", "attach") # {})
    /\ UNCHANGED <<gateVars, rainVars, appVars>>

VaultInit ==
    /\ dmg = NoContainer
    /\ mounted = FALSE
    /\ entriesDir = FALSE
    /\ keychain = "none"
    /\ srcExists = TRUE
    /\ srcDir = {"a.md", "c.txt"}
    /\ volFiles = {}
    /\ vop = "new"
    /\ vres = OkRes("unit")
    /\ procs = <<>>
    /\ vseq = 0
    /\ extSince = FALSE
    /\ healthy = TRUE
    /\ lastMounted = FALSE
    /\ stale = FALSE
    /\ prevAttach = FALSE

CreateEncryptedVolume ==
    \E pw \in Secrets, runs \in Runs :
        Returned("create_encrypted_volume",
                 CreateEncryptedVolumeOn(World, pw, runs), AllWork(runs))

MountWithPassword ==
    \E pw \in Passwords, run \in Exits :
        Returned("mount_with_password", MountWithPasswordOn(World, pw, run),
                 run = "ok")

MountWithKeychain ==
    \E runFind \in Exits, runAttach \in Exits :
        Returned("mount_with_keychain",
                 MountWithKeychainOn(World, runFind, runAttach),
                 runFind = "ok" /\ runAttach = "ok")

Unmount ==
    \E run \in Exits, runForce \in Exits :
        Returned("unmount", UnmountOn(World, run, runForce),
                 run = "ok" /\ runForce = "ok")

SavePasswordToKeychain ==
    \E pw \in Passwords, run \in Exits :
        Returned("save_password_to_keychain", SavePasswordOn(World, pw, run),
                 run = "ok")

GetPasswordFromKeychain ==
    \E run \in Exits :
        Returned("get_password_from_keychain", GetPasswordOn(World, run),
                 run = "ok")

MigrateEntries ==
    \E r \in MigrateRuns(World) :
        Returned("migrate_entries", MigrateEntriesOn(World, r), MigrateWorks(r))

\* Another process changes the source directory between two calls.
ExternalFiles ==
    /\ \E e \in BOOLEAN, d \in SUBSET SrcNames :
          /\ ~e => d = {}
          /\ <<e, d>> # <<srcExists, srcDir>>
          /\ srcExists' = e
          /\ srcDir' = d
    /\ extSince' = TRUE
    /\ UNCHANGED <<dmg, mounted, entriesDir, keychain, volFiles, vop, vres,
                   procs, vseq, healthy, lastMounted, stale, prevAttach,
                   gateVars, rainVars, appVars>>

\* Another process attaches or detaches the volume between two calls.
External ==
    /\ mounted' = ~mounted
    /\ extSince' = TRUE
    /\ UNCHANGED <<dmg, entriesDir, keychain, srcExists, srcDir, volFiles, vop, vres,
                   procs, vseq, healthy, lastMounted, stale, prevAttach,
                   gateVars, rainVars, appVars>>

\* Another process removes the container, or puts one there that it made.
ExternalContainer ==
    /\ ~mounted
    /\ \E d \in Passphrases \cup {NoContainer} :
          /\ d # dmg
          /\ dmg' = d
    /\ entriesDir' = FALSE
    /\ volFiles' = {}
    /\ extSince' = TRUE
    /\ UNCHANGED <<mounted, keychain, srcExists, srcDir, vop, vres, procs, vseq, healthy,
                   lastMounted, stale, prevAttach, gateVars, rainVars, appVars>>

VaultNext ==
    \/ CreateEncryptedVolume
    \/ MountWithPassword
    \/ MountWithKeychain
    \/ Unmount
    \/ SavePasswordToKeychain
    \/ GetPasswordFromKeychain
    \/ External
    \/ ExternalContainer

\* --------------------------------------------------------- MatrixColumn
\* MatrixAnimation::update() advances every column and then the phase; the
\* two share no field, and one column stands for all of them.

\* The rows of the terminal: chars.len() and brightness.len().
Height == 3

\* position and speed are f32; here in tenths of a row.
PosScale == 10

\* brightness is f32; here in thousandths, rounded to the nearest.
Scale == 1000

\* self.brightness[i] *= 0.95
DecayPercent == 95

\* draw_matrix draws a row if brightness > 0.01
VisiblePercent == 1
Visible == (Scale * VisiblePercent) \div 100

\* rng.gen_range(-20.0..0.0), (-30.0..-10.0), (0.3..1.5), (5..20): the
\* draws taken here.
InitPositions == {-200, -1}
ResetPositions == {-101}
Speeds == {3, 14}
Lengths == {5, 19}
Glyphs == {"0", "A"}

\* n / d rounded to the nearest, for n >= 0.
RoundDiv(n, d) == (2 * n + d) \div (2 * d)

Rows(c) == 1..Len(c.brightness)

\* let relative_pos = i as f32 - self.position, i counted from 0
RelativePos(i, pos) == (i - 1) * PosScale - pos

\* relative_pos >= 0.0 && relative_pos < self.length as f32
InBandNoHead(rel, len) == rel < len * PosScale
InBand(rel, len) == rel >= 0 /\ rel < len * PosScale

\* 1.0 - (relative_pos / self.length as f32)
Fade(rel, len) == Scale - RoundDiv(rel * Scale, len * PosScale)

\* self.brightness[i] *= 0.95
DecayNone(b) == b
Decay(b) == RoundDiv(b * DecayPercent, 100)

\* self.position > self.chars.len() as f32 + self.length as f32
ResetNeededNever(c) == FALSE
ResetNeeded(c) == c.position > (Len(c.chars) + c.length) * PosScale

\* What the random number generator may give one call: the glyphs after the
\* perturbation, and the three draws of a reset.
Draws ==
    [chars : [1..Height -> Glyphs], position : ResetPositions, speed : Speeds,
     length : Lengths]

NoColumn == [chars |-> <<>>, position |-> 0, speed |-> 0, length |-> 0,
             brightness |-> <<>>]

\* MatrixColumn::new(height)
ColumnNewOn(height, chs, pos, spd, len) ==
    [chars |-> chs, position |-> pos, speed |-> spd, length |-> len,
     brightness |-> [i \in 1..height |-> 0]]

\* MatrixColumn::update()
ColumnUpdateOn(c, d) ==
    LET pos == c.position + c.speed
        br == [i \in Rows(c) |->
                  IF InBand(RelativePos(i, pos), c.length)
                  THEN Fade(RelativePos(i, pos), c.length)
                  ELSE Decay(c.brightness[i])]
        moved == [c EXCEPT !.position = pos, !.brightness = br, !.chars = d.chars]
    IN  IF ResetNeeded(moved)
        THEN [moved EXCEPT !.position = d.position, !.speed = d.speed,
                           !.length = d.length]
        ELSE moved

\* What the generator gives one call of update(): the draws of a reset are
\* taken only in a call that resets, and one value stands in for what is
\* not drawn.
DrawsOf(c) ==
    IF ResetNeeded([c EXCEPT !.position = c.position + c.speed])
    THEN Draws
    ELSE [chars : [1..Height -> Glyphs], position : {c.position},
          speed : {c.speed}, length : {c.length}]

RainInit ==
    /\ column = NoColumn
    /\ brightnessBefore = <<>>
    /\ columnReset = FALSE

ColumnNew ==
    /\ column = NoColumn
    /\ \E chs \in [1..Height -> Glyphs], pos \in InitPositions, spd \in Speeds,
          len \in Lengths :
          column' = ColumnNewOn(Height, chs, pos, spd, len)
    /\ UNCHANGED <<brightnessBefore, columnReset, gateVars, vaultVars, appVars>>

ColumnUpdate ==
    /\ column # NoColumn
    /\ \E d \in DrawsOf(column) :
          /\ column' = ColumnUpdateOn(column, d)
          /\ columnReset' = (column'.position < column.position)
    /\ brightnessBefore' = column.brightness
    /\ UNCHANGED <<gateVars, vaultVars, appVars>>

RainNext ==
    \/ ColumnNew
    \/ ColumnUpdate

\* ---------------------------------------------------------------- App
\* The .md files that can be in journal_dir, named by their creation time.
MaxEntries == 2
Stamps == 1..MaxEntries

\* The characters typed into title_input, as many as MaxTitle.
MaxTitle == 2
TitleChars == {" ", "t"}

\* self.entries.sort_by(|a, b| b.created.cmp(&a.created)): newest first
RECURSIVE SortByCreated(_)
SortByCreated(S) ==
    IF S = {}
    THEN <<>>
    ELSE LET newest == CHOOSE x \in S : \A y \in S : y <= x
         IN  <<newest>> \o SortByCreated(S \ {newest})

\* load_entries(): dir, the .md files read_dir finds in journal_dir
LoadEntries(dir) == SortByCreated(dir)

\* self.list_state.selected().unwrap_or(0)
Current(sel) == IF sel = None THEN 0 ELSE sel

\* move_selection_up()
MoveSelectionUp(sel) ==
    IF Current(sel) > 0 THEN Current(sel) - 1 ELSE sel

\* move_selection_down()
MoveSelectionDown(sel, es) ==
    IF Current(sel) < Len(es) THEN Current(sel) + 1 ELSE sel

\* if let Some(selected) = ... { if selected > 0 && selected <= self.entries.len()
OpenEntryGuardNoUpper(sel, es) == sel # None /\ sel > 0
OpenEntryGuard(sel, es) == sel # None /\ sel > 0 /\ sel <= Len(es)

\* self.title_input.trim().is_empty()
TitleIsBlank(t) == \A i \in DOMAIN t : t[i] = " "

\* terminal.draw(|f| ui(f, &mut app)) renders the list of entries.len() + 1
\* items with &mut app.list_state.  The List widget of ratatui is not part
\* of the repository: versions of it move a selection that is past the last
\* item to the last item, others leave it.  Both are outcomes of a draw.
Rendered(sel, es) ==
    {sel} \cup (IF sel # None /\ sel > Len(es) THEN {Len(es)} ELSE {})

NoOpen == [index |-> None, len |-> None]

\* before App::new()
AppInit ==
    /\ appPc = "new"
    /\ entries = <<>>
    /\ selected = None
    /\ mode = "Normal"
    /\ title_input = <<>>
    /\ opened = NoOpen

\* App::new(): load_entries(), select(Some(0)); then run_app's initial draw
AppNew ==
    /\ appPc = "new"
    /\ \E dir \in SUBSET Stamps :
          /\ entries' = LoadEntries(dir)
          /\ selected' \in Rendered(0, entries')
    /\ appPc' = "run"
    /\ UNCHANGED <<mode, title_input, opened, gateVars, vaultVars, rainVars>>

\* KeyCode::Char('j') | KeyCode::Down, and the draw that ends the iteration
KeyDown ==
    /\ appPc = "run"
    /\ mode = "Normal"
    /\ selected' \in Rendered(MoveSelectionDown(selected, entries), entries)
    /\ UNCHANGED <<appPc, entries, mode, title_input, opened, gateVars, vaultVars, rainVars>>

\* KeyCode::Char('k') | KeyCode::Up
KeyUp ==
    /\ appPc = "run"
    /\ mode = "Normal"
    /\ selected' \in Rendered(MoveSelectionUp(selected), entries)
    /\ UNCHANGED <<appPc, entries, mode, title_input, opened, gateVars, vaultVars, rainVars>>

\* KeyCode::Char('g'): key.modifiers.contains(KeyModifiers::NONE) is true of
\* every set of modifiers
KeyFirst ==
    /\ appPc = "run"
    /\ mode = "Normal"
    /\ selected' \in Rendered(0, entries)
    /\ UNCHANGED <<appPc, entries, mode, title_input, opened, gateVars, vaultVars, rainVars>>

\* KeyCode::Char('G')
KeyLast ==
    /\ appPc = "run"
    /\ mode = "Normal"
    /\ selected' \in Rendered(Len(entries), entries)
    /\ UNCHANGED <<appPc, entries, mode, title_input, opened, gateVars, vaultVars, rainVars>>

\* KeyCode::Char('q') => return Ok(())
KeyQuit ==
    /\ appPc = "run"
    /\ mode = "Normal"
    /\ appPc' = "quit"
    /\ UNCHANGED <<entries, selected, mode, title_input, opened, gateVars, vaultVars, rainVars>>

\* KeyCode::Enter with Some(0) selected: app.mode = AppMode::TitleInput
KeyEnterCreate ==
    /\ appPc = "run"
    /\ mode = "Normal"
    /\ selected = 0
    /\ mode' = "TitleInput"
    /\ UNCHANGED <<appPc, entries, selected, title_input, opened, gateVars, vaultVars, rainVars>>

\* KeyCode::Enter otherwise: app.open_entry()?, terminal.clear()?, draw.
\* dir: the .md files in journal_dir when the editor has exited.  A `?` of
\* open_entry returns before load_entries, one of terminal.clear after it.
KeyEnterOpen ==
    /\ appPc = "run"
    /\ mode = "Normal"
    /\ selected # 0
    /\ IF OpenEntryGuard(selected, entries)
       THEN /\ opened' = [index |-> selected - 1, len |-> Len(entries)]
            /\ \E dir \in SUBSET Stamps :
                  \/ /\ appPc' = "run"
                     /\ entries' = LoadEntries(dir)
                     /\ selected' \in Rendered(selected, entries')
                  \/ /\ appPc' = "err"
                     /\ entries' \in {entries, LoadEntries(dir)}
                     /\ selected' = selected
       ELSE /\ selected' \in Rendered(selected, entries)
            /\ UNCHANGED <<appPc, entries, opened>>
    /\ UNCHANGED <<mode, title_input, gateVars, vaultVars, rainVars>>

\* an iteration without a key of the mode: only the draw
Redraw ==
    /\ appPc = "run"
    /\ selected' \in Rendered(selected, entries)
    /\ selected' # selected
    /\ UNCHANGED <<appPc, entries, mode, title_input, opened, gateVars, vaultVars, rainVars>>

\* TitleInput, KeyCode::Esc
TitleEsc ==
    /\ appPc = "run"
    /\ mode = "TitleInput"
    /\ title_input' = <<>>
    /\ mode' = "Normal"
    /\ selected' \in Rendered(selected, entries)
    /\ UNCHANGED <<appPc, entries, opened, gateVars, vaultVars, rainVars>>

\* TitleInput, KeyCode::Char(c)
TitleChar ==
    /\ appPc = "run"
    /\ mode = "TitleInput"
    /\ Len(title_input) < MaxTitle
    /\ \E c \in TitleChars : title_input' = Append(title_input, c)
    /\ UNCHANGED <<appPc, entries, selected, mode, opened, gateVars, vaultVars, rainVars>>

\* TitleInput, KeyCode::Backspace: title_input.pop()
TitleBackspace ==
    /\ appPc = "run"
    /\ mode = "TitleInput"
    /\ title_input # <<>>
    /\ title_input' = SubSeq(title_input, 1, Len(title_input) - 1)
    /\ UNCHANGED <<appPc, entries, selected, mode, opened, gateVars, vaultVars, rainVars>>

\* TitleInput, KeyCode::Enter: app.create_new_entry()?, terminal.clear()?,
\* draw.  dir: the .md files in journal_dir when the editor has exited, the
\* file written by fs::write among them or not.
TitleEnter ==
    /\ appPc = "run"
    /\ mode = "TitleInput"
    /\ ~TitleIsBlank(title_input)
    /\ \E dir \in SUBSET Stamps :
          \/ /\ appPc' = "run"
             /\ title_input' = <<>>
             /\ mode' = "Normal"
             /\ entries' = LoadEntries(dir)
             /\ selected' \in Rendered(selected, entries')
          \/ /\ appPc' = "err"
             /\ UNCHANGED <<title_input, mode, entries, selected>>
    /\ UNCHANGED <<opened, gateVars, vaultVars, rainVars>>

\* event::poll(..)?, event::read()?, terminal.draw(..)? return the error
AppError ==
    /\ appPc = "run"
    /\ appPc' = "err"
    /\ UNCHANGED <<entries, selected, mode, title_input, opened, gateVars, vaultVars, rainVars>>

AppNext ==
    \/ AppNew
    \/ KeyDown
    \/ KeyUp
    \/ KeyFirst
    \/ KeyLast
    \/ KeyQuit
    \/ KeyEnterCreate
    \/ KeyEnterOpen
    \/ Redraw
    \/ TitleEsc
    \/ TitleChar
    \/ TitleBackspace
    \/ TitleEnter
    \/ AppError

\* ------------------------------------------------------ specifications
\* main: the gate, then the note browser.
Init == GateInit /\ VaultInit /\ RainInit /\ AppInit
Spec == Init /\ [][Next]_vars

\* The steps of the thread that runs the gate, other than a failing terminal
\* call: that thread is scheduled and its sleeps and polls time out, so it
\* takes its next step.  Nothing is assumed of the spawned thread, of the
\* keyboard or of the terminal.
GateStep ==
    \/ StartAuthentication
    \/ SpawnAuth
    \/ DelayLoop
    \/ DelayExit
    \/ MainTick
    \/ PollEvent
    \/ MainSleep
    \/ DecodingLoop
    \/ DecodingReturn
    \/ FailedLoop
    \/ FailedReturn

SpecGate == Init /\ [][Next]_vars /\ WF_vars(GateStep)

\* The VolumeManager's methods but migrate_entries, called in any order.
SpecVault == Init /\ [][VaultNext]_vars

\* migrate_entries among mounts and unmounts, the volume's and the source
\* directory's state changing in between.
MigrateNext ==
    \/ MigrateEntries
    \/ MountWithPassword
    \/ Unmount
    \/ External
    \/ ExternalFiles

SpecMigrate == Init /\ [][MigrateNext]_vars

\* One column, advanced tick after tick for as long as the animation runs.
SpecRain == Init /\ [][RainNext]_vars /\ WF_vars(RainNext)

\* The note browser alone.
SpecApp == Init /\ [][AppNext]_vars

\* ------------------------------------- run_matrix_encrypting_animation
\* The other public function of matrix.rs, called on its own.
InitEncrypting ==
    /\ fn = "run_matrix_encrypting_animation"
    /\ pc = "enc_setup"
    /\ mainPc = "none"
    /\ InitCommon

\* animation.phase = Decoding; message = ...; decoded_chars = 0;
\* let start = Instant::now()
EncSetup ==
    /\ pc = "enc_setup"
    /\ phase' = "Decoding"
    /\ phaseLog' = LogPhase(phaseLog, "Decoding")
    /\ message' = "ENCRYPTING VAULT - SECURING MEMORIES"
    /\ decoded_chars' = 0
    /\ start' = 0
    /\ pc' = "enc_loop"
    /\ UNCHANGED <<vaultVars, rainVars, appVars, fn, decode_complete_time, fail_start, bgVars, joined, queue,
                   ret, mainVars, escIn, escRead, escAge, authAge, typedAge>>

\* while start.elapsed() < 2 s { update; type one more character; draw;
\*                               sleep(50 ms); ...
EncLoop ==
    /\ pc = "enc_loop"
    /\ start < EncryptDuration
    /\ LET dc2 == UpdateDecoded(phase, message, decoded_chars)
           ct2 == UpdateComplete(phase, message, decoded_chars, decode_complete_time)
           ph2 == UpdatePhase(phase, message, decoded_chars, decode_complete_time)
           dc3 == IF dc2 < MsgLen(message)
                  THEN Min(dc2 + 1, MsgLen(message))
                  ELSE dc2
           typed2 == IF typedAge = None /\ dc3 = MsgLen(message)
                     THEN 0 ELSE typedAge
       IN  \E d \in SleepTimes(SleepTicks) :
              /\ decoded_chars' = dc3
              /\ decode_complete_time' = Aged(ct2, d, HoldCap)
              /\ phase' = ph2
              /\ phaseLog' = LogPhase(phaseLog, ph2)
              /\ typedAge' = Aged(typed2, d, HoldCap + 1)
              /\ start' = Aged(start, d, EncryptDuration)
    /\ pc' = "enc_poll"
    /\ UNCHANGED <<vaultVars, rainVars, appVars, fn, message, fail_start, bgVars, joined, queue, ret,
                   mainVars, escIn, escRead, escAge, authAge>>

\* ... if event::poll(1 ms)? { if let Event::Key(key) = event::read()? {
\*         if key.code == KeyCode::Esc { break } } } }
EncPoll ==
    /\ pc = "enc_poll"
    /\ IF queue # <<>>
       THEN /\ queue' = Tail(queue)
            /\ escRead' = (escRead \/ NextEvent(queue) = "Esc")
            /\ pc' = IF IsCancelKey(NextEvent(queue)) THEN "enc_exit" ELSE "enc_loop"
            /\ UNCHANGED <<start, decode_complete_time, typedAge>>
       ELSE /\ \E d \in SleepTimes(EncPollTicks) :
                  /\ start' = Aged(start, d, EncryptDuration)
                  /\ decode_complete_time' = Aged(decode_complete_time, d, HoldCap)
                  /\ typedAge' = Aged(typedAge, d, HoldCap + 1)
            /\ pc' = "enc_loop"
            /\ UNCHANGED <<queue, escRead>>
    /\ UNCHANGED <<vaultVars, rainVars, appVars, fn, phase, message, decoded_chars, fail_start, bgVars,
                   joined, ret, mainVars, phaseLog, escIn, escAge, authAge>>

\* the loop's condition is false
EncElapsed ==
    /\ pc = "enc_loop"
    /\ ~(start < EncryptDuration)
    /\ pc' = "enc_exit"
    /\ UNCHANGED <<vaultVars, rainVars, appVars, fn, animVars, start, fail_start, bgVars, joined, queue, ret,
                   mainVars, histVars>>

\* disable_raw_mode()?; execute!(...)?; Ok(())
EncReturn ==
    /\ pc = "enc_exit"
    /\ pc' = "done"
    /\ ret' \in Restore("unit")
    /\ UNCHANGED <<vaultVars, rainVars, appVars, fn, animVars, start, fail_start, bgVars, joined, queue,
                   mainVars, histVars>>

InitMatrix == (GateInit \/ InitEncrypting) /\ VaultInit /\ RainInit /\ AppInit

NextMatrix ==
    \/ Next
    \/ EncSetup
    \/ EncLoop
    \/ EncPoll
    \/ EncElapsed
    \/ EncReturn

\* Either public function of matrix.rs.
SpecMatrix == InitMatrix /\ [][NextMatrix]_vars

\* ============================================================ claims

IsPrefix(s, t) == Len(s) <= Len(t) /\ \A i \in 1..Len(s) : s[i] = t[i]

\* C1: when no Esc is pressed while the gate runs, the boolean the gate
\* returns is true exactly when auth_fn returned Ok(true); it is false when
\* auth_fn returned Ok(false) or Err.  (A failing terminal call returns the
\* error instead of a boolean.)
C1_ReturnsAuthResult ==
    (pc = "done" /\ escIn = {} /\ ret \in {"true", "false"}) =>
        /\ authOutcome \in AuthOutcomes
        /\ joined = authOutcome
        /\ (ret = "true") <=> (authOutcome = "true")
        /\ (authOutcome \in {"false", "error"}) => (ret = "false")

C1_Witness ==
    /\ pc = "done"
    /\ escIn = {}
    /\ authOutcome = "error"
    /\ ret = "false"

\* C2 as claimed: an Esc pressed while the phase is Authenticating or Decoding
\* keeps the gate from returning true.
C2_CancelAlwaysFalse ==
    (pc = "done" /\ escIn \cap {"Authenticating", "Decoding"} # {}) =>
        ret # "true"

\* C2, amended: once event::read() has returned an Esc (which happens only
\* in the main loop, phase Authenticating, in a tick that did not find the
\* thread finished), the gate has returned, never with true and without
\* having read the thread's result, whatever auth_fn returns.
C2_EscReadNeverTrue ==
    escRead =>
        /\ pc = "done"
        /\ ret \in {"false", "err"}
        /\ joined = "none"
        /\ phase = "Authenticating"

C2_Witness ==
    /\ escRead
    /\ ret = "false"
    /\ authOutcome = "true"

\* C3 as claimed: more than one polling interval after an Esc was pressed in
\* Authenticating, the gate has returned, and not with true.
C3_CancelWithinOnePoll ==
    (escAge # None /\ escAge > PollTicks) => (pc = "done" /\ ret # "true")

\* C3, amended: when the main loop reaches its event poll with an Esc as the
\* next unread event, the gate returns in that step: no time passes, the
\* result of the thread is not read, and the value returned is not true,
\* in whatever state the thread is.
C3_EscAtPollReturns ==
    [][(pc = "poll" /\ queue # <<>> /\ Head(queue) = "Esc")
        => \/ pc' = "poll"
           \/ /\ pc' = "done"
              /\ ret' \in {"false", "err"}
              /\ joined' = "none"
              /\ escAge' = escAge
              /\ authAge' = authAge
              /\ bg' = bg]_vars

C3_Witness ==
    /\ escRead
    /\ ret = "false"
    /\ bg = "running"

\* C4: no process started by the VolumeManager has the password among its
\* arguments; the password reaches a process only through its stdin.
C4_SecretNeverInArguments ==
    \A i \in 1..Len(procs) :
        \A j \in 1..Len(procs[i].argv) : procs[i].argv[j] \notin Secrets

\* C5: App::new (which lists the entries directory) runs only after the gate
\* returned true; when the gate returned false or an error main has exited
\* without it.
C5_AppOnlyAfterTrue ==
    /\ entriesRead => (ret = "true" /\ mainPc = "app")
    /\ (mainPc = "app") => (ret = "true" /\ pc = "done")
    /\ (mainPc = "exit") => (ret \in {"false", "err"} /\ ~entriesRead)

C5_Witness ==
    /\ mainPc = "exit"
    /\ ret = "false"
    /\ authOutcome = "false"
    /\ ~entriesRead

\* C6: in a gate invocation the phases taken are a prefix of Rain,
\* Authenticating, Decoding, Success or of Rain, Authenticating, Failed.
C6_PhaseSequence ==
    \/ IsPrefix(phaseLog, <<"MatrixRain", "Authenticating", "Decoding", "Success">>)
    \/ IsPrefix(phaseLog, <<"MatrixRain", "Authenticating", "Failed">>)

C6_Witness ==
    phaseLog = <<"MatrixRain", "Authenticating", "Decoding", "Success">>

\* C7 as claimed: the phase is Decoding (or beyond it) only after the thread
\* yielded true, and Failed only after it yielded false or an error, or
\* after a cancellation.
C7_DecodingOnlyAfterAuth ==
    /\ (phase \in {"Decoding", "Success"}) => (joined = "true")
    /\ (phase = "Failed") => (joined \in {"false", "error"} \/ escRead)

\* C7, amended: that holds in run_matrix_authentication;
\* run_matrix_encrypting_animation sets the phase to Decoding itself, with
\* no thread spawned and no authentication.
C7_GateDecodingOnlyAfterAuth ==
    /\ (fn = "run_matrix_authentication") =>
          /\ (phase \in {"Decoding", "Success"}) =>
                (joined = "true" /\ authOutcome = "true" /\ bg = "finished")
          /\ (phase = "Failed") =>
                (joined \in {"false", "error"} /\ joined = authOutcome)
    /\ (fn = "run_matrix_encrypting_animation" /\ pc # "enc_setup") =>
          (phase = "Decoding" /\ bg = "unspawned" /\ joined = "none")

C7_Witness ==
    /\ fn = "run_matrix_authentication"
    /\ phase = "Decoding"
    /\ joined = "true"
    /\ decoded_chars > 0

\* C8: in a gate invocation the phase leaves Rain only for Authenticating,
\* Authenticating is entered only from Rain, and once the phase is Success or
\* Failed no step changes it.
C8_EntryAndTerminal ==
    [][/\ (phase \in {"Success", "Failed"}) => (phase' = phase)
       /\ (phase = "MatrixRain" /\ phase' # phase) => (phase' = "Authenticating")
       /\ (phase' = "Authenticating" /\ phase # phase') => (phase = "MatrixRain")]_vars

C8_Witness ==
    /\ phase = "Failed"
    /\ pc = "failed"
    /\ fail_start >= FailHold
    /\ queue # <<>>

\* C9: the phase is Decoding no earlier than 3 s after Authenticating was
\* entered, and before those 3 s auth_fn is not invoked and no result of it
\* is read.
C9_MinimumDelay ==
    /\ (phase \in {"Decoding", "Success"}) => (authAge >= Secs(AuthDelaySecs))
    /\ (bg \in {"running", "finished"}) => (authAge >= Secs(AuthDelaySecs))
    /\ (joined # "none") => (authAge >= Secs(AuthDelaySecs))

C9_Witness ==
    /\ phase = "Decoding"
    /\ decoded_chars = 0
    /\ authAge = Secs(AuthDelaySecs)

\* C10: the phase is Success only when the typed count equals the message
\* length and at least the 3 s hold has passed since it reached it.
C10_HoldBeforeSuccess ==
    (phase = "Success") =>
        /\ decoded_chars = MsgLen(message)
        /\ typedAge # None
        /\ typedAge >= Secs(HoldSecs)
        /\ decode_complete_time # None
        /\ decode_complete_time > Secs(HoldSecs)

C10_Witness ==
    /\ phase = "Success"
    /\ message = "ACCESS GRANTED - DECRYPTING JOURNAL"
    /\ decoded_chars = MsgLen(message)


\* ------------------------------------------------ claims of the vault
\* The step is a call of a VolumeManager method, of the method name.
IsCall == vseq' # vseq
Called(name) == IsCall /\ vop' = name

\* C11: unmount() called while the mount point does not exist returns Ok(())
\* and starts no external process; it changes nothing.
C11_UnmountAbsentIsNoop ==
    [][(Called("unmount") /\ ~mounted)
          => (vres' = OkRes("unit") /\ procs' = <<>> /\ World' = World)]_vars

\* unmount has returned from a call that found no mount point.
C11_Witness ==
    /\ vop = "unmount" /\ ~extSince
    /\ ~mounted /\ procs = <<>> /\ vres.ok

\* C12: a mount method called while the vault is mounted returns Ok(()) at
\* once: it starts no process (no attach, no query of the keychain) and
\* changes nothing; and of two mount calls in a row the first of which
\* succeeds, at most one runs the attach command.
C12_MountSkipsWhenMounted ==
    [][/\ (IsCall /\ vop' \in MountMethods /\ mounted)
             => (vres' = OkRes("unit") /\ procs' = <<>> /\ World' = World)
       /\ (IsCall /\ vop' \in MountMethods /\ vop \in MountMethods /\ vres.ok
             /\ ~extSince)
             => Cardinality(RunsOf(procs, "hdiutil", "attach"))
                  + Cardinality(RunsOf(procs', "hdiutil", "attach")) <= 1]_vars

\* A mount call succeeded by attaching, and the mount call right after it
\* has returned Ok without a process.
C12_Witness ==
    /\ prevAttach
    /\ vop = "mount_with_keychain" /\ vres.ok /\ procs = <<>>

\* C13: unmount() on a mounted vault runs the detach first; it runs the
\* forced detach exactly when the detach exited non-zero; it returns the
\* Unmount error exactly when both exited non-zero, and Ok(()), the volume
\* unmounted, when one of the two exited with 0.
C13_UnmountEscalates ==
    [][(Called("unmount") /\ mounted) =>
          LET log == procs' IN
          /\ Len(log) \in {1, 2}
          /\ log[1].argv = DetachProc.argv
          /\ (Len(log) = 2) <=> (log[1].exit = "fail")
          /\ (Len(log) = 2) => (log[2].argv = ForceDetachProc.argv)
          /\ (vres'.err = "Failed to unmount volume")
                <=> (Len(log) = 2 /\ log[1].exit = "fail" /\ log[2].exit = "fail")
          /\ (\E i \in DOMAIN log : log[i].exit = "ok")
                <=> vres' = OkRes("unit")
          /\ vres'.ok => ~mounted']_vars

\* unmount has returned Ok after the detach failed and the forced detach
\* worked.
C13_Witness ==
    /\ vop = "unmount" /\ ~extSince
    /\ Len(procs) = 2 /\ procs[1].exit = "fail" /\ procs[2].exit = "ok"
    /\ vres.ok /\ ~mounted

\* C14: migrate_entries(source_dir) called while the vault is not mounted
\* returns the error "Volume must be mounted before migration" and changes
\* nothing: no destination directory is made, no file is copied.
C14_MigrateNeedsMount ==
    [][(Called("migrate_entries") /\ ~mounted)
          => /\ vres' = ErrRes("Volume must be mounted before migration", <<>>)
             /\ World' = World
             /\ procs' = <<>>]_vars

\* migrate_entries has refused a source directory that holds a note, the
\* vault not mounted and without entries directory.
C14_Witness ==
    /\ vop = "migrate_entries" /\ ~extSince
    /\ ~vres.ok /\ vres.err = "Volume must be mounted before migration"
    /\ ~mounted /\ ~entriesDir /\ volFiles = {}
    /\ srcExists /\ "a.md" \in srcDir

\* C15: on a mounted vault, the file system doing what is asked of it,
\* migrate_entries(source_dir) returns the number of files of source_dir
\* whose extension is md; after it every such file is in the volume's
\* entries directory under its name, no other file was copied, and
\* source_dir is as it was.
C15_MigrateCopiesNotes ==
    [][(Called("migrate_entries") /\ mounted /\ healthy') =>
          LET notes == {f \in srcDir : Extension(f) = "md" /\ ~IsDirectory(f)} IN
          /\ vres'.ok
          /\ vres'.val = Cardinality(notes)
          /\ notes \subseteq volFiles'
          /\ volFiles' \ volFiles \subseteq notes
          /\ srcDir' = srcDir /\ srcExists' = srcExists]_vars

\* C16: on a mounted vault, the file system doing what is asked of it,
\* migrate_entries on an empty or a missing source directory returns Ok(0),
\* and the entries directory exists afterwards; without that proviso the one
\* other result is the io::Error of a directory call.
C16_MigrateNothing ==
    [][(Called("migrate_entries") /\ mounted /\ (~srcExists \/ srcDir = {})) =>
          /\ healthy' => vres'.ok
          /\ vres'.ok => (vres'.val = 0 /\ entriesDir' /\ volFiles' = volFiles)
          /\ ~vres'.ok => vres' = IoErr]_vars

\* migrate_entries has returned Ok(0) for a missing source directory and has
\* made the entries directory.
C16_Witness ==
    /\ vop = "migrate_entries" /\ ~extSince
    /\ vres.ok /\ vres.val = 0
    /\ ~srcExists /\ mounted /\ entriesDir

\* The commands a call ran more than once: pairs of places of its log with
\* the same program and subcommand.
Repeated(log) ==
    {pr \in (DOMAIN log) \X (DOMAIN log) :
        /\ pr[1] < pr[2]
        /\ log[pr[1]].argv[1] = log[pr[2]].argv[1]
        /\ log[pr[1]].argv[2] = log[pr[2]].argv[2]}

C18_CreationFailureStops ==
    [][(Called("create_encrypted_volume") /\ RunsOf(procs', "hdiutil", "create") # {}
          /\ procs'[1].exit = "fail") =>
          /\ vres' = ErrRes("Failed to create encrypted volume", Stderr(procs'[1]))
          /\ Len(procs') = 1
          /\ World' = World]_vars

\* create_encrypted_volume has returned the Creation error.
C18_Witness ==
    /\ vop = "create_encrypted_volume" /\ ~extSince
    /\ Len(procs) = 1 /\ procs[1].argv[2] = "create" /\ procs[1].exit = "fail"
    /\ vres.err = "Failed to create encrypted volume"
    /\ keychain = "none" /\ ~mounted /\ ~entriesDir

\* C19: every method decides on the mount point as it is when the method
\* is called, whatever the call before had left: mount_with_password
\* starts no process exactly when the mount point exists, unmount exactly
\* when it does not, and migrate_entries refuses exactly when it does not.
C19_NoCachedMountFlag ==
    [][/\ Called("mount_with_password") => ((procs' = <<>>) <=> mounted)
       /\ Called("unmount") => ((procs' = <<>>) <=> ~mounted)
       /\ Called("migrate_entries")
             => ((vres'.err = "Volume must be mounted before migration") <=> ~mounted)
       /\ IsCall => (IsMounted(World) <=> mounted)]_vars

\* Another process attached the volume after a call had left it detached,
\* and the unmount called next has run the detach.
C19_Witness ==
    /\ stale /\ vop = "unmount" /\ ~extSince
    /\ procs # <<>> /\ procs[1].argv = DetachProc.argv

\* C20 as claimed: a non-zero exit of hdiutil attach makes
\* mount_with_password return the Mount error with the command's stderr,
\* attach having run once; and no call of a method other than unmount runs
\* a command twice.
C20_NoRetryButUnmount ==
    [][/\ (Called("mount_with_password") /\ procs' # <<>> /\ procs'[1].exit = "fail")
             => /\ vres' = ErrRes("Failed to mount volume", Stderr(procs'[1]))
                /\ Len(procs') = 1
       /\ (IsCall /\ vop' # "unmount") => Repeated(procs') = {}]_vars

\* C20, amended: a non-zero exit of hdiutil attach makes mount_with_password
\* return the Mount error with the command's stderr, attach having run once
\* and the world unchanged; and the one command a call ever runs twice is
\* hdiutil detach, plain and then with -force after the plain one exited
\* non-zero, in unmount and in create_encrypted_volume, which calls unmount.
C20_NoRetryButDetach ==
    [][/\ (Called("mount_with_password") /\ procs' # <<>> /\ procs'[1].exit = "fail")
             => /\ vres' = ErrRes("Failed to mount volume", Stderr(procs'[1]))
                /\ Len(procs') = 1
                /\ World' = World
       /\ IsCall =>
             /\ Cardinality(Repeated(procs')) <= 1
             /\ \A pr \in Repeated(procs') :
                   /\ vop' \in {"unmount", "create_encrypted_volume"}
                   /\ procs'[pr[1]].argv = DetachProc.argv
                   /\ procs'[pr[1]].exit = "fail"
                   /\ procs'[pr[2]].argv = ForceDetachProc.argv
                   /\ pr[2] = pr[1] + 1]_vars

\* mount_with_password has returned the Mount error after one attach.
C20_Witness ==
    /\ vop = "mount_with_password" /\ ~extSince
    /\ Len(procs) = 1 /\ procs[1].exit = "fail"
    /\ vres.err = "Failed to mount volume"

\* C21: a get_password_from_keychain() that succeeds right after a
\* successful save_password_to_keychain(s) returns exactly s, whatever was
\* saved before it.
C21_KeychainRoundTrip ==
    [][(Called("get_password_from_keychain")
          /\ vop = "save_password_to_keychain" /\ vres.ok /\ vres'.ok)
          => vres'.val = procs[1].argv[8]]_vars

\* C22: get_password_from_keychain() returns the error "Password not found
\* in keychain" when the keychain has no item (and security could be run),
\* and returns that error in no other case.
C22_NotFoundIsDistinct ==
    [][Called("get_password_from_keychain") =>
          /\ (keychain = "none" /\ procs'[1].exit # "io")
                => vres'.err = "Password not found in keychain"
          /\ (vres'.err = "Password not found in keychain")
                => keychain = "none"]_vars

\* ------------------------------------------------ claims of the column
\* The step is a call of MatrixColumn::update().
IsAdvance == column # NoColumn /\ column' # column

\* The row is outside the band of the call: of the position the call moves
\* the column to.
OutsideBand(i) ==
    LET rel == RelativePos(i, column.position + column.speed)
    IN  ~(rel >= 0 /\ rel < column.length * PosScale)

\* C23: in every update(), a row that is outside the band and whose
\* brightness is above the threshold of drawing (0.01) gets a strictly
\* smaller brightness, 0.95 of the old one to the nearest thousandth.
C23_DecayOutsideBand ==
    [][IsAdvance =>
          \A i \in Rows(column) :
              (OutsideBand(i) /\ column.brightness[i] > Visible) =>
                  /\ column'.brightness[i] < column.brightness[i]
                  /\ 2 * (100 * column'.brightness[i] - DecayPercent * column.brightness[i]) <= 100
                  /\ 2 * (DecayPercent * column.brightness[i] - 100 * column'.brightness[i]) <= 100]_vars

\* A row the band has left, still visible, got darker in the last update().
C23_Witness ==
    /\ column # NoColumn /\ ~columnReset
    /\ \E i \in Rows(column) :
          /\ ~InBand(RelativePos(i, column.position), column.length)
          /\ RelativePos(i, column.position) < 0
          /\ brightnessBefore[i] > Visible
          /\ column.brightness[i] < brightnessBefore[i]
          /\ column.brightness[i] > 0

\* C29: every row's brightness is in [0, 1] at all times; update() gives a
\* row in the band 1 - relative/length, which is in (0, 1], and multiplies
\* a row outside it by 0.95.
C29_BrightnessInUnitRange ==
    /\ [](\A i \in Rows(column) :
             column.brightness[i] >= 0 /\ column.brightness[i] <= Scale)
    /\ [][IsAdvance =>
            \A i \in Rows(column) :
                LET rel == RelativePos(i, column.position + column.speed) IN
                /\ ~OutsideBand(i) =>
                      /\ column'.brightness[i]
                           = Scale - RoundDiv(rel * Scale, column.length * PosScale)
                      /\ column'.brightness[i] > 0
                      /\ column'.brightness[i] <= Scale
                /\ OutsideBand(i) =>
                      column'.brightness[i]
                         = RoundDiv(column.brightness[i] * DecayPercent, 100)]_vars

\* The head of the trail is on one row (brightness 1), the trail fades on
\* another, and a third is above the head.
C29_Witness ==
    /\ column # NoColumn
    /\ \E i, j \in Rows(column) :
          /\ column.brightness[i] = Scale
          /\ RelativePos(i, column.position) = 0
          /\ column.brightness[j] > 0 /\ column.brightness[j] < Scale
          /\ InBand(RelativePos(j, column.position), column.length)

\* C30: the position of a column is never above height + length; an
\* update() that moves it above resets it in the same call to a negative
\* position, with a speed and a length drawn anew; and a column that goes
\* on being updated is reset again and again.
C30_ColumnRestarts ==
    /\ [](column.position <= (Len(column.chars) + column.length) * PosScale)
    /\ [][IsAdvance =>
            /\ (column.position + column.speed
                  > (Len(column.chars) + column.length) * PosScale)
                  => /\ column'.position < 0
                     /\ column'.position \in ResetPositions
                     /\ column'.speed \in Speeds
                     /\ column'.length \in Lengths
            /\ (column.position + column.speed
                  <= (Len(column.chars) + column.length) * PosScale)
                  => /\ column'.position = column.position + column.speed
                     /\ column'.speed = column.speed
                     /\ column'.length = column.length]_vars
    /\ []<>columnReset

\* The last update() has reset the column: it is above the screen again.
C30_Witness ==
    /\ columnReset
    /\ column.position < 0


\* ------------------------------------------------ claims of the gate, continued
\* C24: the step that reads an Esc returns from the gate with false (or with
\* the error of restoring the terminal) and neither joins the thread nor
\* touches it, whatever the thread is doing; from then on the gate has
\* returned and the thread's result, also one produced later, is never read.
C24_CancelAbandonsThread ==
    /\ [](escRead => (pc = "done" /\ ret \in Restore("false") /\ joined = "none"))
    /\ [][(~escRead /\ escRead') =>
             (pc' = "done" /\ joined' = "none" /\ bg' = bg /\ authOutcome' = authOutcome)]_vars
    /\ [][(pc = "done") => (pc' = "done" /\ joined' = joined /\ ret' = ret)]_vars

C24_Witness ==
    /\ escRead
    /\ pc = "done"
    /\ ret = "false"
    /\ bg = "finished"
    /\ authOutcome = "true"
    /\ joined = "none"

\* C25: the thread is joined only by a tick of the main loop whose
\* is_finished() test found it finished, and at most once; a tick that finds
\* it unfinished goes on to the event poll, and in the main loop the
\* foreground always has a next step to take, whatever the thread does.
C25_JoinOnlyWhenFinished ==
    /\ [][(joined' # joined \/ (pc = "main" /\ pc' \in {"decoding", "failed"})) =>
             /\ pc = "main"
             /\ bg = "finished"
             /\ joined = "none"
             /\ joined' = authOutcome
             /\ joined' \in AuthOutcomes]_vars
    /\ [][(pc = "main" /\ bg # "finished" /\ pc' # pc) =>
             (pc' \in {"poll", "done"} /\ joined' = "none")]_vars
    /\ []((pc \in {"main", "poll", "sleep"}) => ENABLED GateStep)

C25_Witness ==
    /\ joined = "error"
    /\ pc = "failed"
    /\ fail_start = 0
    /\ bg = "finished"

\* C26: once the gate has read false or an error from the thread the phase
\* is Failed and stays Failed, and the gate returns false only when 2 s have
\* passed since the phase became Failed; without an Esc read, false is
\* returned only that way.
C26_FailedHold ==
    /\ (joined \in {"false", "error"}) =>
          /\ phase = "Failed"
          /\ pc \in {"failed", "done"}
          /\ ret # "true"
          /\ (pc = "done" /\ ret = "false") => (fail_start >= Secs(FailSecs))
          /\ (pc = "failed") => (ret = "none")
    /\ (ret = "false" /\ ~escRead) => (joined \in {"false", "error"})

C26_Witness ==
    /\ joined = "false"
    /\ phase = "Failed"
    /\ pc = "done"
    /\ ret = "false"
    /\ fail_start >= Secs(FailSecs)
    /\ queue = <<>>

\* The gate has returned what auth_fn's result calls for, after the whole
\* course of its phase, or the error of a terminal call.
GateReturned ==
    /\ pc = "done"
    /\ \/ ret = "err"
       \/ /\ authOutcome = "true"
          /\ joined = "true"
          /\ ret = "true"
          /\ phase = "Success"
          /\ decoded_chars = MsgLen(message)
          /\ decode_complete_time > Secs(HoldSecs)
       \/ /\ authOutcome \in {"false", "error"}
          /\ joined = authOutcome
          /\ ret = "false"
          /\ phase = "Failed"
          /\ fail_start >= Secs(FailSecs)

\* C27: in a run of the gate in which no Esc is ever pressed, once auth_fn
\* has returned the gate eventually returns: true after a true result, with
\* the message typed in full, the hold over and the phase Success; false
\* after a false result or an error, with the 2 s of Failed over.  (A failing
\* terminal call returns its error instead.)
C27_GateTerminates ==
    [](escIn = {}) => ((bg = "finished") ~> GateReturned)

C27_Witness ==
    /\ GateReturned
    /\ escIn = {}
    /\ ret = "true"
    /\ bgSleep >= AuthDelay

\* The step calls MatrixAnimation::update() once, in the phase Decoding.
IsDecodingUpdate == phase = "Decoding" /\ (DecodingLoop \/ EncLoop)

\* C28 as claimed: the typed count is between 0 and the message length; an
\* update() call in Decoding adds exactly one to it until it is the message
\* length, nothing ever lowers it, and it is set to 0 by the steps that enter
\* Decoding and by no other.
C28_TypedCount ==
    /\ [](decoded_chars \in 0..MsgLen(message))
    /\ [][/\ IsDecodingUpdate =>
               decoded_chars' = Min(decoded_chars + 1, MsgLen(message))
          /\ (phase = "Decoding" /\ phase' = "Decoding") =>
               decoded_chars' >= decoded_chars
          /\ (decoded_chars' # decoded_chars) =>
               \/ IsDecodingUpdate
               \/ (phase # "Decoding" /\ phase' = "Decoding" /\ decoded_chars' = 0)
          /\ (phase # "Decoding" /\ phase' = "Decoding") => decoded_chars' = 0]_vars


\* C31: once the gate has joined the thread, no step reads a key event (the
\* queue only grows, by the keys pressed) and the joined result does not
\* change; the boolean the gate then returns is true exactly when the joined
\* result is Ok(true), whatever keys were pressed since, Esc included.  (A
\* failing terminal call returns its error instead of a boolean.)
C31_ResultFixedOnceObserved ==
    /\ [][(joined # "none") =>
             /\ joined' = joined
             /\ escRead' = escRead
             /\ \/ queue' = queue
                \/ \E k \in Events : queue' = Append(queue, k)]_vars
    /\ []((joined # "none") => ~escRead)
    /\ []((joined # "none" /\ pc = "done" /\ ret # "err") =>
             ret = (IF joined = "true" THEN "true" ELSE "false"))

C31_Witness ==
    /\ pc = "done"
    /\ joined = "true"
    /\ ret = "true"
    /\ "Decoding" \in escIn
    /\ ~escRead
    /\ queue # <<>>
    /\ queue[Len(queue)] = "Esc"


\* ------------------------------------------------ claims of the vault, continued
\* C32 as claimed: when create_encrypted_volume() returns Ok, the keychain
\* holds the password that was piped to hdiutil create, which is the
\* passphrase of the container; security add-generic-password is run last,
\* after a create, every attach and a detach that all exited with 0; and the
\* next call, if it is mount_with_keychain() with nothing changed in between,
\* pipes to hdiutil attach exactly the passphrase of the container.
C32_KeychainOpensCreated ==
    /\ [][Called("create_encrypted_volume") =>
             LET log == procs'
                 saves == RunsOf(log, "security", "add-generic-password")
             IN  /\ vres'.ok =>
                       /\ saves # {}
                       /\ <<keychain'>> = log[1].stdin
                       /\ dmg' = log[1].stdin
                 /\ \A i \in saves :
                       /\ i = Len(log)
                       /\ log[i].argv[8] = log[1].stdin[1]
                       /\ log[1].argv[2] = "create"
                       /\ \A j \in 1..(i - 2) : log[j].exit = "ok" \/ log[j].argv[2] = "detach"
                       /\ log[i - 1].argv[2] = "detach"
                       /\ log[i - 1].exit = "ok"]_vars
    /\ [][(/\ Called("mount_with_keychain")
           /\ vop = "create_encrypted_volume"
           /\ vres.ok
           /\ ~extSince) =>
             \A i \in RunsOf(procs', "hdiutil", "attach") : procs'[i].stdin = dmg]_vars


\* ------------------------------------------------ claims of the note browser
\* The step handles a navigation key: j, Down, k, Up, g or G.
IsNavigation == KeyDown \/ KeyUp \/ KeyFirst \/ KeyLast

\* The selection is an index of the list: 0, the create-new item, or that of
\* an entry.
SelectionInList == selected \in 0..Len(entries)

\* C33: a navigation key leaves the entry list as it is and keeps a selection
\* that is in 0..entries.len() in that range; so does every step that does
\* not shorten the list, and App::new starts in that range, so that the
\* selection is in range until a reload shrinks the list under it.  open_entry has indexed entries only with
\* selected - 1 for a selected in 1..entries.len(), the list being the one of
\* that moment, also when an earlier reload left the selection past the end.
C33_SelectionInRange ==
    /\ [][IsNavigation =>
             /\ entries' = entries
             /\ SelectionInList => SelectionInList']_vars
    /\ [][(SelectionInList /\ Len(entries') >= Len(entries)) => SelectionInList']_vars
    /\ [][AppNew => SelectionInList']_vars
    /\ []((opened # NoOpen) => (opened.index \in 0..(opened.len - 1)))
    /\ [][(opened' # opened) =>
             /\ selected \in 1..Len(entries)
             /\ opened' = [index |-> selected - 1, len |-> Len(entries)]]_vars
    /\ [][(KeyEnterOpen /\ ~(selected \in 1..Len(entries))) =>
             (opened' = opened /\ entries' = entries /\ appPc' = appPc)]_vars

C33_Witness ==
    /\ appPc = "run"
    /\ opened # NoOpen
    /\ Len(entries) < opened.len
    /\ selected # None
    /\ selected > Len(entries)

====
